---------------------------- MODULE Spec2Model ----------------------------
(***************************************************************************)
(* Model of src/main.py (Lolocaust): the ledger client events(), the score *)
(* engine compute_unstake_value(), the normalizer scores_to_weights() and  *)
(* the scheduling loop main().                                             *)
(*                                                                         *)
(* Numbers.  Python floats are modelled by exact arithmetic: scores are    *)
(* integers and weights are reduced fractions [num, den].  Ledger amounts  *)
(* are kept in fixed point: the field `amount` of a parsed event holds the *)
(* amount in units of 1e-10 tao, i.e. the value float(raw)/1e10 of line 84 *)
(* counted in those units (1e10 does not fit the model checker's           *)
(* integers).                                                              *)
(***************************************************************************)
EXTENDS Integers, Sequences, FiniteSets, TLC

VARIABLES
    block,            \* chain: current block height
    chain_last_step,  \* chain: block of the last incentive step (authoritative)
    registry,         \* chain: owning coldkey of every registered slot
    pc,               \* main: position in the loop body
    sub_bound,        \* main: whether the local `sub` has been assigned
    metagraph,        \* main: the local snapshot object
    current_block,    \* main: local current_block
    start_block,      \* main: local start_block
    todo,             \* main: members of unique_coldkeys not yet iterated
    unique_keys,      \* main: insertion order of the dict unique_scores
    unique_scores,    \* main: the dict unique_scores
    weights_call,     \* main: the set_weights call made in this iteration
    interval_calls,   \* outcomes of the set_weights calls since last_step changed
    ledger_calls,     \* the compute_unstake_value calls made in this iteration
    calls_since_fetch,\* chain-client calls made since the last snapshot fetch
    input,            \* argument of the function under test
    output            \* result of the function under test

main_vars == <<block, chain_last_step, registry, pc, sub_bound, metagraph,
               current_block, start_block, todo, unique_keys, unique_scores,
               weights_call, interval_calls, ledger_calls, calls_since_fetch>>
fn_vars == <<input, output>>
vars == <<main_vars, fn_vars>>

----------------------------------------------------------------------------
(* Bounds *)

MaxSlots == 4      \* registered slots in a snapshot
Tempo == 4         \* the subnet's tempo
MaxBlock == 8      \* the chain is followed up to this height
MaxSkip == 2       \* blocks that pass between two polls of the loop
MaxRecords == 3    \* records in one ledger response
MaxScores == 4     \* length of a raw score list given to scores_to_weights

Identities == {"A", "B", "C"}

----------------------------------------------------------------------------
(* Exact fractions standing for Python floats *)

RECURSIVE GCD(_, _)
GCD(a, b) == IF b = 0 THEN a ELSE GCD(b, a % b)

Abs(x) == IF x < 0 THEN -x ELSE x

\* n / d for d > 0, in lowest terms
Frac(n, d) ==
    IF n = 0 THEN [num |-> 0, den |-> 1]
    ELSE LET g == GCD(Abs(n), d) IN [num |-> n \div g, den |-> d \div g]

Zero == Frac(0, 1)
One == Frac(1, 1)

FracAdd(x, y) == Frac(x.num * y.den + y.num * x.den, x.den * y.den)

\* x / k for an integer k > 0
FracDivInt(x, k) == Frac(x.num, x.den * k)

RECURSIVE FracSum(_)
FracSum(s) == IF s = <<>> THEN Zero ELSE FracAdd(Head(s), FracSum(Tail(s)))

RECURSIVE IntSum(_)
IntSum(s) == IF s = <<>> THEN 0 ELSE Head(s) + IntSum(Tail(s))

\* all sequences over S of length 0..n
SeqsUpTo(S, n) == UNION {[1..k -> S] : k \in 0..n}

----------------------------------------------------------------------------
(* The ledger service's reply to requests.get, as events() sees it *)

\* a JSON scalar read by int()/float(): a number, absent, null, or a
\* non-numeric string
Num(n) == [t |-> "int", v |-> n]
Missing == [t |-> "missing", v |-> 0]
Null == [t |-> "null", v |-> 0]
Bad == [t |-> "bad", v |-> 0]

\* a nested identity object: present (with its ss58), absent, or null
Obj(a) == [t |-> "object", ss58 |-> a]
NoObj == [t |-> "missing", ss58 |-> ""]
NullObj == [t |-> "null", ss58 |-> ""]

Rec(b, act, nom, del, amt, pr) ==
    [kind |-> "object", block_number |-> b, action |-> act, nominator |-> nom,
     delegate |-> del, amount |-> amt, alpha_price_in_tao |-> pr]

\* a list element that is not a JSON object (a string, a number, null)
NonObject ==
    [kind |-> "other", block_number |-> Missing, action |-> "", nominator |-> NoObj,
     delegate |-> NoObj, amount |-> Missing, alpha_price_in_tao |-> Missing]

\* well-formed records: both known actions and an unknown one, blocks on
\* both sides of the window start, two amounts and two prices, and a
\* negative amount (which the code does not reject)
ValidRecords ==
    {Rec(Num(b), "UNDELEGATE", Obj("A"), Obj("H"), Num(ap[1]), Num(ap[2])) :
        b \in {1, 2}, ap \in {<<10, 1>>, <<15, 2>>}}
    \cup {Rec(Num(2), "DELEGATE", Obj("A"), Obj("H"), Num(10), Num(1)),
          Rec(Num(2), "STAKE_MOVE", Obj("A"), Obj("H"), Num(10), Num(1)),
          Rec(Num(2), "UNDELEGATE", Obj("A"), Obj("H"), Num(-10), Num(1))}

\* an UNDELEGATE record at block 2 with exactly one field defect
DefectiveRecords ==
    {NonObject}
    \cup {Rec(b, "UNDELEGATE", Obj("A"), Obj("H"), Num(10), Num(1)) :
            b \in {Missing, Null, Bad}}
    \cup {Rec(Num(2), "UNDELEGATE", n, Obj("H"), Num(10), Num(1)) :
            n \in {NoObj, NullObj}}
    \cup {Rec(Num(2), "UNDELEGATE", Obj("A"), d, Num(10), Num(1)) :
            d \in {NoObj, NullObj}}
    \cup {Rec(Num(2), "UNDELEGATE", Obj("A"), Obj("H"), a, Num(1)) :
            a \in {Missing, Null, Bad}}
    \cup {Rec(Num(2), "UNDELEGATE", Obj("A"), Obj("H"), Num(10), p) :
            p \in {Missing, Null, Bad}}

RawRecords == ValidRecords \cup DefectiveRecords

\* transport: what requests.get / raise_for_status / response.json do;
\* body: the decoded JSON value; data: the value under its key 'data'
Reply(tr, body, data, items) ==
    [transport |-> tr, body |-> body, data |-> data, items |-> items]

FailedReplies ==
    {Reply(tr, "object", "list", <<>>) :
        tr \in {"connection_error", "timeout", "http_error", "bad_json"}}

MalformedReplies ==
    {Reply("ok", "list", "list", <<>>)}
    \cup {Reply("ok", "object", d, <<>>) : d \in {"missing", "null", "number", "string"}}

ListReplies(n) == {Reply("ok", "object", "list", s) : s \in SeqsUpTo(RawRecords, n)}

Replies == FailedReplies \cup MalformedReplies \cup ListReplies(MaxRecords)

----------------------------------------------------------------------------
(* events(): lines 27-100 *)

Returned(evs) == [raised |-> "none", events |-> evs]
Raised(exc) == [raised |-> exc, events |-> <<>>]

\* int(x) / float(x) of lines 66, 84, 85 with the .get default 0
NumError(x) ==
    CASE x.t = "null" -> "TypeError"
      [] x.t = "bad" -> "ValueError"
      [] OTHER -> "none"

NumValue(x) == IF x.t = "int" THEN x.v ELSE 0

\* one pass of the loop body, lines 64-98: the record is appended, skipped
\* (continue), or an exception leaves the try statement
ParseEvent(event) ==
    LET skip == [step |-> "skip", exc |-> "none", ev |-> <<>>]
        raise(e) == [step |-> "raise", exc |-> e, ev |-> <<>>]
        caught(e) == e \in {"ValueError", "KeyError", "TypeError"}
        fail(e) == IF caught(e) THEN skip ELSE raise(e)
    IN  IF event.kind # "object" THEN fail("AttributeError")
        ELSE IF NumError(event.block_number) # "none"
            THEN fail(NumError(event.block_number))
        ELSE IF event.action \notin {"UNDELEGATE", "DELEGATE"} THEN skip
        ELSE IF event.nominator.t = "null" THEN fail("AttributeError")
        ELSE IF event.delegate.t = "null" THEN fail("AttributeError")
        ELSE IF NumError(event.amount) # "none" THEN fail(NumError(event.amount))
        ELSE IF NumError(event.alpha_price_in_tao) # "none"
            THEN fail(NumError(event.alpha_price_in_tao))
        ELSE [step |-> "append", exc |-> "none",
              ev |-> <<[block |-> NumValue(event.block_number),
                        action |-> IF event.action = "UNDELEGATE"
                                   THEN "sell" ELSE "buy",
                        coldkey |-> event.nominator.ss58,
                        hotkey |-> event.delegate.ss58,
                        amount |-> NumValue(event.amount),
                        price |-> NumValue(event.alpha_price_in_tao)]>>]

\* the for loop of lines 63-98 over the remaining records
RECURSIVE ParseLoop(_, _)
ParseLoop(json_events, events_list) ==
    IF json_events = <<>> THEN Returned(events_list)
    ELSE LET r == ParseEvent(Head(json_events))
         IN  IF r.step = "raise" THEN Raised(r.exc)
             ELSE ParseLoop(Tail(json_events), events_list \o r.ev)

Events(resp) ==
    IF resp.transport # "ok" THEN Returned(<<>>)
    ELSE IF resp.body # "object" THEN Raised("AttributeError")
    ELSE CASE resp.data = "missing" -> Returned(<<>>)
           [] resp.data \in {"null", "number"} -> Raised("TypeError")
           [] resp.data = "string" -> Raised("AttributeError")
           [] OTHER -> ParseLoop(resp.items, <<>>)

----------------------------------------------------------------------------
(* compute_unstake_value(): lines 102-125 *)

\* mutant of SumLoop: the window starts after start_block
RECURSIVE SumLoopAfterStart(_, _, _)
SumLoopAfterStart(events_list, start, total_value) ==
    IF events_list = <<>> THEN total_value
    ELSE LET event == Head(events_list)
         IN  SumLoopAfterStart(Tail(events_list), start,
                     IF event.block > start /\ event.action = "sell"
                     THEN total_value + event.amount * event.price
                     ELSE total_value)

RECURSIVE SumLoop(_, _, _)
SumLoop(events_list, start, total_value) ==
    IF events_list = <<>> THEN total_value
    ELSE LET event == Head(events_list)
         IN  SumLoop(Tail(events_list), start,
                     IF event.block >= start /\ event.action = "sell"
                     THEN total_value + event.amount * event.price
                     ELSE total_value)

ComputeUnstakeValue(resp, start) ==
    LET r == Events(resp)
    IN  IF r.raised # "none" THEN [raised |-> r.raised, value |-> 0]
        ELSE [raised |-> "none", value |-> SumLoop(r.events, start, 0)]

----------------------------------------------------------------------------
(* scores_to_weights(): lines 127-154 *)

\* mutant of ScoresToWeights: the total is taken over the raw scores
ScoresToWeightsRawTotal(scores) ==
    LET adjusted_scores ==
            [i \in 1..Len(scores) |-> IF scores[i] > 0 THEN scores[i] ELSE 0]
        total == IntSum(scores)
    IN  IF total > 0
        THEN [i \in 1..Len(scores) |-> Frac(adjusted_scores[i], total)]
        ELSE [i \in 1..Len(scores) |-> Zero]

\* mutant of ScoresToWeights: equal weights when no score is positive
ScoresToWeightsUniformFallback(scores) ==
    LET adjusted_scores ==
            [i \in 1..Len(scores) |-> IF scores[i] > 0 THEN scores[i] ELSE 0]
        total == IntSum(adjusted_scores)
    IN  IF total > 0
        THEN [i \in 1..Len(scores) |-> Frac(adjusted_scores[i], total)]
        ELSE [i \in 1..Len(scores) |-> Frac(1, Len(scores))]

\* mutant of ScoresToWeights: every positive score gets the same share
ScoresToWeightsEqualShare(scores) ==
    LET positive == {i \in 1..Len(scores) : scores[i] > 0}
    IN  [i \in 1..Len(scores) |->
            IF i \in positive THEN Frac(1, Cardinality(positive)) ELSE Zero]

ScoresToWeights(scores) ==
    LET adjusted_scores ==
            [i \in 1..Len(scores) |-> IF scores[i] > 0 THEN scores[i] ELSE 0]
        total == IntSum(adjusted_scores)
    IN  IF total > 0
        THEN [i \in 1..Len(scores) |-> Frac(adjusted_scores[i], total)]
        ELSE [i \in 1..Len(scores) |-> Zero]

----------------------------------------------------------------------------
(* main(): projection, lines 200-214 *)

\* Counter(metagraph.coldkeys)[cold], line 208
CountOf(coldkeys, cold) == Cardinality({i \in 1..Len(coldkeys) : coldkeys[i] = cold})

\* mutant of UniqueWeights: the normalized list, built in insertion order,
\* is zipped with the keys in sorted order
UniqueWeightsSortedKeys(keys, scores) ==
    LET unique_scores_list == [i \in 1..Len(keys) |-> scores[keys[i]]]
        normalized_weights_list == ScoresToWeights(unique_scores_list)
        keyset == {keys[i] : i \in 1..Len(keys)}
        alphabet == <<"A", "B", "C">>
        place(k) == CHOOSE i \in DOMAIN alphabet : alphabet[i] = k
    IN  [k \in keyset |->
            normalized_weights_list[
                1 + Cardinality({j \in keyset : place(j) < place(k)})]]

\* dict(zip(unique_keys, scores_to_weights(unique_scores_list))), lines 201-204
UniqueWeights(keys, scores) ==
    LET unique_scores_list == [i \in 1..Len(keys) |-> scores[keys[i]]]
        normalized_weights_list == ScoresToWeights(unique_scores_list)
    IN  [k \in {keys[i] : i \in 1..Len(keys)} |->
            normalized_weights_list[CHOOSE i \in 1..Len(keys) : keys[i] = k]]

\* mutant of FinalWeights: the normalized list is submitted unprojected
FinalWeightsPerKey(unique_weights, coldkeys) ==
    LET keys == DOMAIN unique_weights
        order == CHOOSE f \in [1..Cardinality(keys) -> keys] :
                    \A k \in keys : \E i \in DOMAIN f : f[i] = k
    IN  [i \in 1..Cardinality(keys) |-> unique_weights[order[i]]]

\* mutant of FinalWeights: the weight is not split among the slots
FinalWeightsUnsplit(unique_weights, coldkeys) ==
    [i \in 1..Len(coldkeys) |->
        IF coldkeys[i] \in DOMAIN unique_weights
        THEN unique_weights[coldkeys[i]] ELSE Zero]

\* mutant of FinalWeights: a repeated coldkey keeps its weight at its first
\* slot only
FinalWeightsFirstSlot(unique_weights, coldkeys) ==
    [i \in 1..Len(coldkeys) |->
        IF /\ coldkeys[i] \in DOMAIN unique_weights
           /\ \A j \in 1..(i - 1) : coldkeys[j] # coldkeys[i]
        THEN unique_weights[coldkeys[i]] ELSE Zero]

\* the loop of lines 209-213
FinalWeights(unique_weights, coldkeys) ==
    [i \in 1..Len(coldkeys) |->
        FracDivInt(IF coldkeys[i] \in DOMAIN unique_weights
                   THEN unique_weights[coldkeys[i]] ELSE Zero,
                   CountOf(coldkeys, coldkeys[i]))]

\* metagraph.uids.tolist(), line 221: one uid per slot, 0..n-1
Uids(coldkeys) == [i \in 1..Len(coldkeys) |-> i - 1]

----------------------------------------------------------------------------
(* The chain, as the loop observes it through sub and metagraph *)

\* the ledger replies the loop is run against: every failed or malformed
\* reply and every list reply of at most one record
LoopReplies == FailedReplies \cup MalformedReplies \cup ListReplies(1)

\* the incentive step runs when Tempo blocks have passed since the last
\* one, so blocks_since_last_step takes the values 0..Tempo-1
StepAfter(b, ls) == IF b + 1 - ls >= Tempo THEN b + 1 ELSE ls

RECURSIVE StepAfterBlocks(_, _, _)
StepAfterBlocks(b, ls, d) ==
    IF d = 0 THEN ls ELSE StepAfterBlocks(b + 1, StepAfter(b, ls), d - 1)

\* d blocks pass while the process is blocked in sub.wait_for_block()
ChainAdvance(d) ==
    /\ block + d <= MaxBlock
    /\ block' = block + d
    /\ chain_last_step' = StepAfterBlocks(block, chain_last_step, d)
    /\ interval_calls' = IF chain_last_step' # chain_last_step
                         THEN <<>> ELSE interval_calls
    /\ UNCHANGED registry

\* sub.metagraph(netuid), line 177
Snapshot ==
    [coldkeys |-> registry, tempo |-> Tempo, last_step |-> chain_last_step,
     blocks_since_last_step |-> block - chain_last_step]

\* The code compares coldkeys only for equality (set, Counter, dict keys),
\* so the registries are taken up to a renaming of the identities: a
\* coldkey appears for the first time only after those before it in
\* FirstSeen have appeared.
FirstSeen == <<"A", "C", "B">>

Rank(c) == CHOOSE i \in DOMAIN FirstSeen : FirstSeen[i] = c

Registries ==
    {r \in SeqsUpTo(Identities, MaxSlots) :
        \A i \in DOMAIN r :
            \/ Rank(r[i]) = 1
            \/ \E j \in 1..(i - 1) : Rank(r[j]) = Rank(r[i]) - 1}

NoSnapshot ==
    [coldkeys |-> <<>>, tempo |-> 0, last_step |-> 0, blocks_since_last_step |-> 0]

NoCall == [made |-> FALSE, ok |-> FALSE, uids |-> <<>>, weights |-> <<>>]

NoInput == [fn |-> "none", resp |-> Reply("ok", "object", "list", <<>>),
            start_block |-> 0, scores |-> <<>>]
NoOutput == [fn |-> "none", raised |-> "none", events |-> <<>>, value |-> 0,
             weights |-> <<>>]

----------------------------------------------------------------------------
(* main(): the loop, lines 169-240 *)

chain_vars == <<block, chain_last_step, registry>>
cycle_vars == <<start_block, todo, unique_keys, unique_scores, weights_call,
                ledger_calls>>

MainInit ==
    /\ block = 0
    /\ chain_last_step = 0
    /\ registry \in Registries
    /\ pc = "connect"
    /\ sub_bound = FALSE
    /\ metagraph = NoSnapshot
    /\ current_block = 0
    /\ start_block = 0
    /\ todo = {}
    /\ unique_keys = <<>>
    /\ unique_scores = <<>>
    /\ weights_call = NoCall
    /\ interval_calls = <<>>
    /\ ledger_calls = <<>>
    /\ calls_since_fetch = <<>>

\* the locals of one pass of the loop body are rebound before they are
\* read again
ForgetCycle ==
    /\ start_block' = 0
    /\ todo' = {}
    /\ unique_keys' = <<>>
    /\ unique_scores' = <<>>
    /\ weights_call' = NoCall
    /\ ledger_calls' = <<>>

\* line 174: sub = bt.subtensor(config=config)
Connect ==
    /\ pc = "connect"
    /\ \/ /\ sub_bound' = TRUE
          /\ pc' = "metagraph"
       \/ /\ pc' = "handler"
          /\ UNCHANGED sub_bound
    /\ UNCHANGED <<chain_vars, metagraph, current_block, cycle_vars, interval_calls,
                   calls_since_fetch, fn_vars>>

\* mutant of FetchMetagraph: the snapshot object of the first iteration is
\* kept and reused
FetchMetagraphOnce ==
    /\ pc = "metagraph"
    /\ \/ /\ metagraph' = IF metagraph = NoSnapshot THEN Snapshot ELSE metagraph
          /\ calls_since_fetch' = <<>>
          /\ pc' = "current_block"
       \/ /\ pc' = "handler"
          /\ UNCHANGED <<metagraph, calls_since_fetch>>
    /\ UNCHANGED <<chain_vars, sub_bound, current_block, cycle_vars, interval_calls,
                   fn_vars>>

\* line 177: metagraph = sub.metagraph(config.netuid)
FetchMetagraph ==
    /\ pc = "metagraph"
    /\ \/ /\ metagraph' = Snapshot
          /\ calls_since_fetch' = <<>>
          /\ pc' = "current_block"
       \/ /\ pc' = "handler"
          /\ UNCHANGED <<metagraph, calls_since_fetch>>
    /\ UNCHANGED <<chain_vars, sub_bound, current_block, cycle_vars, interval_calls,
                   fn_vars>>

\* line 180: current_block = sub.get_current_block()
GetCurrentBlock ==
    /\ pc = "current_block"
    /\ \/ /\ current_block' = block
          /\ pc' = "check"
       \/ /\ pc' = "handler"
          /\ UNCHANGED current_block
    /\ UNCHANGED <<chain_vars, sub_bound, metagraph, cycle_vars, interval_calls,
                   calls_since_fetch, fn_vars>>

\* mutant of Triggered: one block of leeway
TriggeredStrict(mg) == mg.blocks_since_last_step > mg.tempo - 2

\* mutant of Triggered: the condition of the docstring, line 162
TriggeredAfterTempo(mg) == mg.blocks_since_last_step > mg.tempo

\* line 184
Triggered(mg) == mg.blocks_since_last_step >= mg.tempo - 2

\* mutant of CheckTempo: the window is a fixed lookback of tempo blocks
CheckTempoFixedLookback ==
    /\ pc = "check"
    /\ IF Triggered(metagraph)
       THEN /\ start_block' = current_block - metagraph.tempo
            /\ unique_scores' = <<>>
            /\ unique_keys' = <<>>
            /\ todo' = {metagraph.coldkeys[i] : i \in 1..Len(metagraph.coldkeys)}
            /\ pc' = "score"
            /\ UNCHANGED <<weights_call, ledger_calls>>
       ELSE /\ pc' = "wait"
            /\ UNCHANGED cycle_vars
    /\ UNCHANGED <<chain_vars, sub_bound, metagraph, current_block, interval_calls,
                   calls_since_fetch, fn_vars>>

\* lines 184-190 and 232-233
CheckTempo ==
    /\ pc = "check"
    /\ IF Triggered(metagraph)
       THEN /\ start_block' = metagraph.last_step
            /\ unique_scores' = <<>>
            /\ unique_keys' = <<>>
            /\ todo' = {metagraph.coldkeys[i] : i \in 1..Len(metagraph.coldkeys)}
            /\ pc' = "score"
            /\ UNCHANGED <<weights_call, ledger_calls>>
       ELSE /\ pc' = "wait"
            /\ UNCHANGED cycle_vars
    /\ UNCHANGED <<chain_vars, sub_bound, metagraph, current_block, interval_calls,
                   calls_since_fetch, fn_vars>>

\* unique_scores[cold] = score, lines 194 and 198
Store(cold, score) ==
    /\ unique_scores' = [k \in DOMAIN unique_scores \cup {cold} |->
                            IF k = cold THEN score ELSE unique_scores[k]]
    /\ unique_keys' = Append(unique_keys, cold)
    /\ todo' = todo \ {cold}

\* lines 192-198: the score stored for a coldkey whose ledger reply is
\* resp; an exception of compute_unstake_value stores 0.0
ScoreFor(resp, start) ==
    LET r == ComputeUnstakeValue(resp, start)
    IN  IF r.raised = "none" THEN r.value ELSE 0

\* line 193 for one reply of the ledger: whether compute_unstake_value
\* raised, the value it returned, and the score stored
Outcome(resp, start) ==
    LET r == ComputeUnstakeValue(resp, start)
    IN  [raised |-> r.raised # "none", value |-> r.value,
         score |-> ScoreFor(resp, start)]

LedgerCall(cold, o) ==
    [coldkey |-> cold, start_block |-> start_block, raised |-> o.raised,
     value |-> o.value]

\* mutant of ScoreOne: no try statement around line 193, so an exception of
\* compute_unstake_value reaches the handler of line 238
ScoreOneUnguarded ==
    /\ pc = "score"
    /\ \E cold \in todo :
          \E o \in {Outcome(resp, start_block) : resp \in LoopReplies} :
              /\ ledger_calls' = Append(ledger_calls, LedgerCall(cold, o))
              /\ IF o.raised
                 THEN pc' = "handler" /\ UNCHANGED <<unique_scores, unique_keys, todo>>
                 ELSE pc' = pc /\ Store(cold, o.score)
    /\ UNCHANGED <<chain_vars, sub_bound, metagraph, current_block,
                   start_block, weights_call, interval_calls, calls_since_fetch,
                   fn_vars>>

\* one pass of the loop of lines 191-198, for any next member of the set
\* and any reply of the ledger
ScoreOne ==
    /\ pc = "score"
    /\ \E cold \in todo :
          \E o \in {Outcome(resp, start_block) : resp \in LoopReplies} :
              /\ Store(cold, o.score)
              /\ ledger_calls' = Append(ledger_calls, LedgerCall(cold, o))
    /\ UNCHANGED <<chain_vars, pc, sub_bound, metagraph, current_block,
                   start_block, weights_call, interval_calls, calls_since_fetch,
                   fn_vars>>

\* lines 200-231: normalize, project, sub.set_weights, metagraph.last_step
SetWeights ==
    /\ pc = "score"
    /\ todo = {}
    /\ LET unique_weights == UniqueWeights(unique_keys, unique_scores)
           final_weights == FinalWeights(unique_weights, metagraph.coldkeys)
       IN  \E ok \in BOOLEAN :
             /\ weights_call' = [made |-> TRUE, ok |-> ok,
                                 uids |-> Uids(metagraph.coldkeys),
                                 weights |-> final_weights]
             /\ interval_calls' =
                    Append(interval_calls, IF ok THEN "ok" ELSE "failed")
    /\ calls_since_fetch' = Append(calls_since_fetch, "set_weights")
    /\ metagraph' = [metagraph EXCEPT !.last_step = current_block]
    /\ pc' = "wait"
    /\ UNCHANGED <<chain_vars, sub_bound, current_block, start_block, todo,
                   unique_keys, unique_scores, ledger_calls, fn_vars>>

\* line 236: sub.wait_for_block()
WaitForBlock ==
    /\ pc = "wait"
    /\ \/ /\ \E d \in 1..MaxSkip : ChainAdvance(d)
          /\ calls_since_fetch' = Append(calls_since_fetch, "wait_for_block")
          /\ pc' = "connect"
       \/ /\ calls_since_fetch' = Append(calls_since_fetch, "wait_for_block raised")
          /\ pc' = "handler"
          /\ UNCHANGED <<chain_vars, interval_calls>>
    /\ ForgetCycle
    /\ UNCHANGED <<sub_bound, metagraph, current_block, fn_vars>>

\* mutant of HandleError: the handler retries without waiting
HandleErrorNoWait ==
    /\ pc = "handler"
    /\ pc' = "connect"
    /\ UNCHANGED <<chain_vars, interval_calls, calls_since_fetch, sub_bound,
                   metagraph, current_block, cycle_vars, fn_vars>>

\* lines 238-240: except Exception: sub.wait_for_block().  An unassigned
\* `sub` raises UnboundLocalError, and an exception raised here leaves main
HandleError ==
    /\ pc = "handler"
    /\ \/ /\ sub_bound
          /\ \E d \in 1..MaxSkip : ChainAdvance(d)
          /\ calls_since_fetch' = Append(calls_since_fetch, "wait_for_block")
          /\ pc' = "connect"
       \/ /\ calls_since_fetch' =
                IF sub_bound THEN Append(calls_since_fetch, "wait_for_block raised")
                ELSE calls_since_fetch
          /\ pc' = "raised"
          /\ UNCHANGED <<chain_vars, interval_calls>>
    /\ UNCHANGED <<sub_bound, metagraph, current_block, cycle_vars, fn_vars>>

Init == MainInit /\ input = NoInput /\ output = NoOutput

Next ==
    \/ Connect
    \/ FetchMetagraph
    \/ GetCurrentBlock
    \/ CheckTempo
    \/ ScoreOne
    \/ SetWeights
    \/ WaitForBlock
    \/ HandleError

Spec == Init /\ [][Next]_vars

----------------------------------------------------------------------------
(* main() on a chain where no call fails and the loop sees at least one of *)
(* any two consecutive blocks                                              *)

NoFailure ==
    /\ pc' \notin {"handler", "raised"}
    /\ weights_call'.made => weights_call'.ok

DenseConnect == Connect /\ NoFailure
DenseFetchMetagraph == FetchMetagraph /\ NoFailure
DenseGetCurrentBlock == GetCurrentBlock /\ NoFailure
DenseCheckTempo == CheckTempo /\ NoFailure
DenseScoreOne == ScoreOne /\ NoFailure
DenseSetWeights == SetWeights /\ NoFailure
DenseWaitForBlock == WaitForBlock /\ NoFailure /\ block' - block <= 2

NextDense ==
    \/ DenseConnect
    \/ DenseFetchMetagraph
    \/ DenseGetCurrentBlock
    \/ DenseCheckTempo
    \/ DenseScoreOne
    \/ DenseSetWeights
    \/ DenseWaitForBlock

SpecDense == Init /\ [][NextDense]_vars

----------------------------------------------------------------------------
(* events() and compute_unstake_value() applied to every reply *)

StartBlocks == {1, 2}

MainIdle == MainInit /\ registry = <<>>

InitLedger ==
    /\ MainIdle
    /\ input \in {[fn |-> "ledger", resp |-> r, start_block |-> s, scores |-> <<>>] :
                    r \in Replies, s \in StartBlocks}
    /\ output = NoOutput

CallEvents ==
    /\ input.fn = "ledger"
    /\ output = NoOutput
    /\ LET r == Events(input.resp)
       IN  output' = [fn |-> "events", raised |-> r.raised, events |-> r.events,
                      value |-> 0, weights |-> <<>>]
    /\ UNCHANGED <<main_vars, input>>

CallComputeUnstakeValue ==
    /\ input.fn = "ledger"
    /\ output = NoOutput
    /\ LET r == ComputeUnstakeValue(input.resp, input.start_block)
       IN  output' = [fn |-> "compute_unstake_value", raised |-> r.raised,
                      events |-> <<>>, value |-> r.value, weights |-> <<>>]
    /\ UNCHANGED <<main_vars, input>>

NextLedger == CallEvents \/ CallComputeUnstakeValue

SpecLedger == InitLedger /\ [][NextLedger]_vars

----------------------------------------------------------------------------
(* scores_to_weights() applied to every raw score list *)

ScoreValues == {-10, 0, 10, 30}

InitWeights ==
    /\ MainIdle
    /\ input \in {[fn |-> "scores", resp |-> NoInput.resp, start_block |-> 0,
                   scores |-> s] : s \in SeqsUpTo(ScoreValues, MaxScores)}
    /\ output = NoOutput

CallScoresToWeights ==
    /\ input.fn = "scores"
    /\ output = NoOutput
    /\ output' = [fn |-> "scores_to_weights", raised |-> "none", events |-> <<>>,
                  value |-> 0, weights |-> ScoresToWeights(input.scores)]
    /\ UNCHANGED <<main_vars, input>>

NextWeights == CallScoresToWeights

SpecWeights == InitWeights /\ [][NextWeights]_vars

----------------------------------------------------------------------------
(* Properties *)

Slots(c) == {i \in 1..Len(registry) : registry[i] = c}

RECURSIVE FracSumOver(_, _)
FracSumOver(w, idx) ==
    IF idx = {} THEN Zero
    ELSE LET i == CHOOSE j \in idx : TRUE
         IN  FracAdd(w[i], FracSumOver(w, idx \ {i}))

Positive(x) == IF x > 0 THEN x ELSE 0

RECURSIVE PositiveTotal(_, _)
PositiveTotal(scores, idx) ==
    IF idx = {} THEN 0
    ELSE LET i == CHOOSE j \in idx : TRUE
         IN  Positive(scores[i]) + PositiveTotal(scores, idx \ {i})

\* C1: between two consecutive changes of the chain's last_step, set_weights
\* is called at most once.
C1_OneSubmissionPerTempo == Len(interval_calls) <= 1

\* C2: no exception propagates out of main: after a failed chain-client call
\* the loop waits for a block and starts a further iteration.
C2_MainNeverRaises == pc # "raised"

\* C3: after a failed set_weights call no further set_weights call is made
\* while the chain's last_step is unchanged.
C3_NoRetryBeforeNextTempo ==
    \A i \in 1..Len(interval_calls) :
        interval_calls[i] = "failed" => i = Len(interval_calls)

\* C4: every set_weights call passes one weight per slot of the snapshot
\* fetched in that iteration, and all zeros of that length when no score is
\* positive.
C4_OneWeightPerSlot ==
    weights_call.made =>
        /\ Len(weights_call.weights) = Len(weights_call.uids)
        /\ Len(weights_call.uids) = Len(registry)
        /\ DOMAIN weights_call.weights = DOMAIN metagraph.coldkeys
        /\ (\A k \in DOMAIN unique_scores : unique_scores[k] <= 0) =>
              weights_call.weights = [i \in 1..Len(registry) |-> Zero]

C4_Witness ==
    /\ weights_call.made
    /\ Len(registry) = MaxSlots
    /\ Cardinality(DOMAIN unique_scores) < Len(registry)
    /\ \E k \in DOMAIN unique_scores : unique_scores[k] < 0
    /\ \A k \in DOMAIN unique_scores : unique_scores[k] <= 0

\* C5: the submitted vector has no negative entry, sums to 1 when some
\* identity of the snapshot has a positive raw score, and is all zeros
\* otherwise.
C5_NonNegativeSumOne ==
    weights_call.made =>
        /\ \A i \in DOMAIN weights_call.weights : weights_call.weights[i].num >= 0
        /\ IF \E k \in DOMAIN unique_scores : unique_scores[k] > 0
           THEN FracSumOver(weights_call.weights, DOMAIN weights_call.weights) = One
           ELSE \A i \in DOMAIN weights_call.weights : weights_call.weights[i] = Zero

C5_Witness ==
    /\ weights_call.made
    /\ Cardinality(DOMAIN unique_scores) < Len(registry)
    /\ \E k \in DOMAIN unique_scores : unique_scores[k] > 0
    /\ \E k \in DOMAIN unique_scores : unique_scores[k] < 0
    /\ FracSumOver(weights_call.weights, DOMAIN weights_call.weights) = One

\* C6: scores_to_weights returns a list of the same length with no negative
\* entry; entry i is max(scores[i], 0) / total when the total of the
\* positive scores is > 0 and 0 otherwise, so the list sums to 1 if some
\* score is positive and to 0 if none is.
C6_Normalized ==
    output.fn = "scores_to_weights" =>
        LET scores == input.scores
            w == output.weights
            total == PositiveTotal(scores, DOMAIN scores)
        IN  /\ Len(w) = Len(scores)
            /\ \A i \in DOMAIN w : w[i].num >= 0 /\ w[i].den > 0
            /\ \A i \in DOMAIN w :
                  IF total > 0
                  THEN w[i].num * total = Positive(scores[i]) * w[i].den
                  ELSE w[i] = Zero
            /\ FracSumOver(w, DOMAIN w) =
                  IF \E i \in DOMAIN scores : scores[i] > 0 THEN One ELSE Zero

C6_Witness ==
    /\ output.fn = "scores_to_weights"
    /\ \E i, j, k \in DOMAIN input.scores :
          /\ input.scores[i] > input.scores[j]
          /\ input.scores[j] > 0
          /\ input.scores[k] < 0
    /\ \E i \in DOMAIN input.scores : input.scores[i] = 0
    /\ FracSumOver(output.weights, DOMAIN output.weights) = One

\* C7: for every identity of the snapshot, the entries of the submitted
\* vector at its slots are all equal and sum to its normalized unique
\* weight.
C7_MassPerIdentity ==
    weights_call.made =>
        \A c \in DOMAIN unique_scores :
            /\ \A i, j \in Slots(c) : weights_call.weights[i] = weights_call.weights[j]
            /\ FracSumOver(weights_call.weights, Slots(c)) =
                  UniqueWeights(unique_keys, unique_scores)[c]

\* the example of the specification: A = 10, B = 0, C = 30 on [A, C, A, B]
C7_Witness ==
    /\ weights_call.made
    /\ registry = <<"A", "C", "A", "B">>
    /\ unique_scores = [k \in Identities |->
                           CASE k = "A" -> 10 [] k = "B" -> 0 [] OTHER -> 30]
    /\ weights_call.weights = <<Frac(1, 8), Frac(3, 4), Frac(1, 8), Zero>>

\* C8: compute_unstake_value returns the sum of amount * price over the
\* sell events with block >= start_block; earlier sells and buys add
\* nothing, and an empty event list gives 0.
C8_SellsInWindow ==
    (output.fn = "compute_unstake_value" /\ output.raised = "none") =>
        LET evs == Events(input.resp).events
            counted == {i \in DOMAIN evs : /\ evs[i].action = "sell"
                                           /\ ~(evs[i].block < input.start_block)}
            value == [i \in DOMAIN evs |-> evs[i].amount * evs[i].price]
        IN  /\ output.value = IntSum([i \in DOMAIN evs |->
                                         IF i \in counted THEN value[i] ELSE 0])
            /\ evs = <<>> => output.value = 0

C8_Witness ==
    /\ output.fn = "compute_unstake_value"
    /\ output.raised = "none"
    /\ LET evs == Events(input.resp).events
       IN  /\ Len(evs) = MaxRecords
           /\ evs[1].action = "sell" /\ evs[1].block < input.start_block
           /\ evs[2].action = "sell" /\ evs[2].block = input.start_block
           /\ evs[3].action = "buy"
           /\ output.value = evs[2].amount * evs[2].price
           /\ output.value > 0

\* C9: in a list reply, a malformed record makes events() skip at most that
\* record: every well-formed record with a known action is returned and no
\* exception leaves events().
C9_OnlyBadRecordSkipped ==
    (output.fn = "events" /\ input.resp \in ListReplies(MaxRecords)) =>
        LET items == input.resp.items
            good == {i \in DOMAIN items :
                        /\ items[i] \in ValidRecords
                        /\ items[i].action \in {"UNDELEGATE", "DELEGATE"}}
        IN  /\ output.raised = "none"
            /\ Len(output.events) >= Cardinality(good)

\* C10: events() returns an empty list and raises nothing on every transport
\* failure and on every malformed response body.
C10_EmptyOnBadReply ==
    (output.fn = "events" /\ input.resp \in FailedReplies \cup MalformedReplies) =>
        /\ output.raised = "none"
        /\ output.events = <<>>

\* C11: a cycle is triggered exactly when the freshly fetched snapshot has
\* blocks_since_last_step >= tempo - 2; an iteration that is not triggered
\* makes no ledger query and no set_weights call.
C11_TriggerAtTempoMinusTwo ==
    /\ (pc = "score" \/ weights_call.made \/ ledger_calls # <<>>) =>
          block - chain_last_step >= Tempo - 2
    /\ pc = "wait" =>
          (weights_call.made <=> block - chain_last_step >= Tempo - 2)

C11_Witness ==
    /\ pc = "wait"
    /\ weights_call.made
    /\ ledger_calls # <<>>
    /\ block - chain_last_step = Tempo - 2

\* C12: when compute_unstake_value raises for an identity, that identity
\* gets score 0, every other identity keeps its own value, and the cycle goes
\* on to one set_weights call over all identities of the snapshot.
C12_FailedIdentityScoresZero ==
    ledger_calls # <<>> =>
        /\ pc \in {"score", "wait"}
        /\ \A i \in DOMAIN ledger_calls :
              /\ ledger_calls[i].coldkey \in DOMAIN unique_scores
              /\ unique_scores[ledger_calls[i].coldkey] =
                    IF ledger_calls[i].raised THEN 0 ELSE ledger_calls[i].value
        /\ pc = "wait" =>
              /\ weights_call.made
              /\ DOMAIN unique_scores = {registry[i] : i \in DOMAIN registry}
              /\ Cardinality({i \in DOMAIN calls_since_fetch :
                                 calls_since_fetch[i] = "set_weights"}) = 1

C12_Witness ==
    /\ pc = "wait"
    /\ weights_call.made
    /\ \E i, j \in DOMAIN ledger_calls :
          /\ ledger_calls[i].raised
          /\ unique_scores[ledger_calls[i].coldkey] = 0
          /\ i < j
          /\ ~ledger_calls[j].raised
          /\ unique_scores[ledger_calls[j].coldkey] > 0
    /\ \E i \in DOMAIN weights_call.weights : weights_call.weights[i] # Zero

\* C13: in a triggered cycle every unique coldkey of the snapshot is scored
\* exactly once, with start_block equal to the snapshot's last_step, and all
\* of them before set_weights is called.
C13_EachIdentityOnce ==
    /\ \A i, j \in DOMAIN ledger_calls :
          ledger_calls[i].coldkey = ledger_calls[j].coldkey => i = j
    /\ \A i \in DOMAIN ledger_calls :
          /\ ledger_calls[i].start_block = chain_last_step
          /\ \E n \in DOMAIN registry : registry[n] = ledger_calls[i].coldkey
    /\ weights_call.made =>
          \A n \in DOMAIN registry :
              \E i \in DOMAIN ledger_calls : ledger_calls[i].coldkey = registry[n]

C13_Witness ==
    /\ weights_call.made
    /\ Len(registry) = MaxSlots
    /\ Len(ledger_calls) = Cardinality(Identities)
    /\ chain_last_step > 0
    /\ ledger_calls[1].start_block = chain_last_step

\* C14: an identity whose raw score is 0 gets weight exactly 0 at each of its
\* slots in the submitted vector, whatever the other scores are.
C14_ZeroScoreZeroWeight ==
    weights_call.made =>
        \A c \in DOMAIN unique_scores :
            unique_scores[c] = 0 =>
                \A i \in Slots(c) : weights_call.weights[i] = Zero

C14_Witness ==
    /\ weights_call.made
    /\ \E i, j \in DOMAIN ledger_calls :
          /\ ledger_calls[i].raised
          /\ unique_scores[ledger_calls[i].coldkey] = 0
          /\ ~ledger_calls[j].raised
          /\ unique_scores[ledger_calls[j].coldkey] = 0
          /\ Cardinality(Slots(ledger_calls[j].coldkey)) > 1
    /\ \E c \in DOMAIN unique_scores : unique_scores[c] > 0

FracLess(x, y) == x.num * y.den < y.num * x.den

\* C15: scores_to_weights keeps the order of the positive scores: a larger
\* positive score gets a strictly larger positive weight, the highest score
\* gets the highest weight, and a score <= 0 gets weight 0.
C15_OrderPreserved ==
    output.fn = "scores_to_weights" =>
        LET scores == input.scores
            w == output.weights
        IN  /\ \A i, j \in DOMAIN scores :
                  (scores[i] > scores[j] /\ scores[j] > 0) =>
                      FracLess(w[j], w[i]) /\ FracLess(Zero, w[j])
            /\ \A i \in DOMAIN scores :
                  (scores[i] > 0 /\ \A j \in DOMAIN scores : scores[j] <= scores[i]) =>
                      \A j \in DOMAIN scores : ~FracLess(w[i], w[j])
            /\ \A i \in DOMAIN scores : scores[i] <= 0 => w[i] = Zero

C15_Witness ==
    /\ output.fn = "scores_to_weights"
    /\ Len(input.scores) = MaxScores
    /\ \E i, j \in DOMAIN input.scores :
          /\ input.scores[i] > input.scores[j]
          /\ input.scores[j] > 0
          /\ FracLess(output.weights[j], output.weights[i])
    /\ \E i \in DOMAIN input.scores : input.scores[i] < 0 /\ output.weights[i] = Zero

\* C16: scores are computed and set_weights is called only when more than
\* tempo (360) blocks have passed since the last step.
C16_OnlyAfterTempoBlocks ==
    (pc = "score" \/ weights_call.made) => current_block - start_block > Tempo

\* C17: every iteration evaluates the trigger and start_block on a snapshot
\* fetched in that iteration; the local write metagraph.last_step =
\* current_block, made whether or not set_weights succeeded, reaches no
\* later iteration.
C17_FreshSnapshot ==
    /\ pc \in {"current_block", "check", "score"} => metagraph = Snapshot
    /\ pc = "score" => start_block = chain_last_step
    /\ weights_call.made => metagraph.last_step = current_block

C17_Witness ==
    /\ pc = "score"
    /\ interval_calls = <<"failed">>
    /\ metagraph = Snapshot
    /\ start_block = chain_last_step
    /\ current_block # chain_last_step

\* C18: when no call fails and at most one block is skipped between two
\* polls, set_weights has been called at least once in every tempo interval
\* by the time the chain's last_step changes.
C18_NoMissedTempo ==
    [][chain_last_step' # chain_last_step => Len(interval_calls) >= 1]_vars

\* the window is entered at its last block only
C18_Witness ==
    /\ pc = "wait"
    /\ weights_call.made
    /\ Len(interval_calls) = 1
    /\ block - chain_last_step = Tempo - 1
    /\ chain_last_step > 0

\* C19: between two consecutive snapshot fetches a wait_for_block call has
\* returned, on every path through the iteration, and set_weights is called
\* at most once per iteration.
C19_WaitBetweenFetches ==
    /\ (pc = "metagraph" /\ metagraph # NoSnapshot) =>
          \E i \in DOMAIN calls_since_fetch : calls_since_fetch[i] = "wait_for_block"
    /\ Cardinality({i \in DOMAIN calls_since_fetch :
                       calls_since_fetch[i] = "set_weights"}) <= 1

C19_Witness ==
    /\ pc = "metagraph"
    /\ calls_since_fetch = <<"set_weights", "wait_for_block raised", "wait_for_block">>

Orders(S) ==
    {f \in [1..Cardinality(S) -> S] : \A i, j \in DOMAIN f : f[i] = f[j] => i = j}

\* C20: the submitted vector is the same for every order in which the unique
\* coldkeys are iterated, and the projection divides by a count >= 1 for a
\* coldkey that has a unique weight.
C20_OrderIndependent ==
    weights_call.made =>
        /\ \A i \in DOMAIN registry :
              /\ CountOf(registry, registry[i]) >= 1
              /\ registry[i] \in DOMAIN UniqueWeights(unique_keys, unique_scores)
        /\ \A order \in Orders(DOMAIN unique_scores) :
              FinalWeights(UniqueWeights(order, unique_scores), registry) =
                  weights_call.weights

C20_Witness ==
    /\ weights_call.made
    /\ Len(registry) = MaxSlots
    /\ unique_keys = <<"B", "A", "C">>
    /\ unique_scores["A"] > unique_scores["B"]
    /\ unique_scores["B"] > 0
    /\ unique_scores["C"] < 0

=============================================================================
